---- MODULE Spec2Model ----
(***************************************************************************)
(* Model of busqueda_comunicaciones.py: main() reads a spreadsheet with    *)
(* obtener_comunicaciones() and hands the identifier list to               *)
(* buscar_comunicaciones(), which logs into the portal and, per            *)
(* identifier, searches, opens the detail view, downloads the first file   *)
(* and returns to the list.                                                *)
(*                                                                         *)
(* The portal is outside the program: every interaction with it either     *)
(* completes or raises (a timeout or another Playwright error); the model  *)
(* chooses the outcome nondeterministically.  `view' is the page the       *)
(* completed navigation steps of the code lead to.                         *)
(***************************************************************************)
EXTENDS Integers, Sequences, FiniteSets, TLC

VARIABLES sheet, env, pc, i, comunicaciones, view, session, trace, saved, log, error

vars == <<sheet, env, pc, i, comunicaciones, view, session, trace, saved, log, error>>

----------------------------------------------------------------------------
(* Bounds and input domains *)

MaxRows == 3

\* pandas' null (NaN / None): an empty cell, or an unset environment variable
Null == "NaN"

Identifiers == {"100", "200", "300"}
IdCells == Identifiers \cup {Null}
OrgCells == {"X", Null}

Rows == [id : IdCells, org : OrgCells]

RowSeqs == UNION {[1..n -> Rows] : n \in 0..MaxRows}

\* the file chosen in the dialog: chosen = FALSE is a cancelled dialog,
\* hasId / hasOrg tell whether the two required columns exist
Sheets == [chosen : BOOLEAN, hasId : BOOLEAN, hasOrg : BOOLEAN, rows : RowSeqs]

Envs == [user : {Null, "u"}, password : {Null, "p"}]

\* outcome of one portal interaction under the default timeout
InteractionResults == {"ok", "timeout", "error"}

\* outcome of the download step: the event arrives and the file is saved,
\* the wait for the event times out, the click raises, or save_as raises
DownloadResults == {"ok", "timeout", "click_error", "save_error"}

----------------------------------------------------------------------------
(* obtener_comunicaciones *)

IsNull(cell) == cell = Null

\* df[mask]: the rows whose mask entry is true, in row order
RECURSIVE Filtrar(_, _)
Filtrar(rows, mask) ==
    IF rows = <<>> THEN <<>>
    ELSE IF mask[1] THEN <<Head(rows)>> \o Filtrar(Tail(rows), Tail(mask))
         ELSE Filtrar(Tail(rows), Tail(mask))

SeleccionarKeepFilled(rows) ==
    LET mask == [k \in DOMAIN rows |-> ~IsNull(rows[k].org)]
        df   == Filtrar(rows, mask)
    IN  [k \in DOMAIN df |-> df[k].id]

\* lines 16-18: mask by ORGANISMO.isnull(), drop the column, list the ids
Seleccionar(rows) ==
    LET mask == [k \in DOMAIN rows |-> IsNull(rows[k].org)]
        df   == Filtrar(rows, mask)
    IN  [k \in DOMAIN df |-> df[k].id]

SelectorErrorIgnoreColumns(s) ==
    IF ~s.chosen THEN "no_file" ELSE "none"

\* lines 14-15: read_excel raises on an empty path and on a missing usecols column
SelectorError(s) ==
    IF ~s.chosen THEN "no_file"
    ELSE IF ~(s.hasId /\ s.hasOrg) THEN "missing_column"
    ELSE "none"

----------------------------------------------------------------------------
(* buscar_comunicaciones: helpers *)

CredentialsMissingUserOnly(e) == e.user = Null

CredentialsMissingBoth(e) == e.user = Null /\ e.password = Null

\* line 39
CredentialsMissing(e) == e.user = Null \/ e.password = Null

CaughtNothing(op) == FALSE

CaughtEverything(op) == TRUE

CaughtFromSearch(op) == op \in {"search", "open", "download"}

\* lines 57-68: the try block covers the download step only
Caught(op) == op = "download"

ContinueRetry == "search"

\* line 70: continue goes to the next iteration of the for loop
ContinueTarget == "loop"

\* line 69: the message is built from the exception e
LogEntry(e) == <<"Error descargando archivo de comunicacion", e>>

Event(op, res) == [op |-> op, i |-> i, res |-> res, view |-> view]

RaiseLeak(err) ==
    /\ pc' = "aborted"
    /\ error' = err
    /\ UNCHANGED session

\* an exception leaves the with block of line 22, which closes the browser
Raise(err) ==
    /\ pc' = "aborted"
    /\ error' = err
    /\ session' = IF session = "open" THEN "closed" ELSE session

\* what an exception raised by step op does
Fail(op, res) ==
    IF Caught(op)
    THEN /\ log' = Append(log, LogEntry(res))
         /\ pc' = ContinueTarget
         /\ UNCHANGED <<error, session>>
    ELSE /\ Raise("interaction")
         /\ UNCHANGED log

----------------------------------------------------------------------------
(* Initial state and actions *)

Init ==
    /\ sheet \in Sheets
    /\ env \in Envs
    /\ pc = "main"
    /\ i = 0
    /\ comunicaciones = <<>>
    /\ view = "none"
    /\ session = "none"
    /\ trace = <<>>
    /\ saved = <<>>
    /\ log = <<>>
    /\ error = "none"

\* main, line 78
ObtenerComunicaciones ==
    /\ pc = "main"
    /\ LET err == SelectorError(sheet) IN
         IF err = "none"
         THEN /\ comunicaciones' = Seleccionar(sheet.rows)
              /\ pc' = "launch"
              /\ trace' = Append(trace, Event("obtener", "ok"))
              /\ UNCHANGED <<error, session>>
         ELSE /\ Raise(err)
              /\ trace' = Append(trace, Event("obtener", err))
              /\ UNCHANGED comunicaciones
    /\ UNCHANGED <<sheet, env, i, view, saved, log>>

\* lines 22-28
Launch ==
    /\ pc = "launch"
    /\ \E res \in {"ok", "error"} :
         /\ trace' = Append(trace, Event("launch", res))
         /\ IF res = "ok"
            THEN /\ session' = "open"
                 /\ pc' = "goto"
                 /\ UNCHANGED error
            ELSE Raise("interaction")
    /\ UNCHANGED <<sheet, env, i, comunicaciones, view, saved, log>>

\* lines 30-31
Goto ==
    /\ pc = "goto"
    /\ \E res \in InteractionResults :
         /\ trace' = Append(trace, Event("goto", res))
         /\ IF res = "ok"
            THEN /\ view' = "login"
                 /\ pc' = "wait_boxes"
                 /\ UNCHANGED <<error, session, log>>
            ELSE /\ Fail("goto", res)
                 /\ UNCHANGED view
    /\ UNCHANGED <<sheet, env, i, comunicaciones, saved>>

\* lines 34-35
WaitBoxes ==
    /\ pc = "wait_boxes"
    /\ \E res \in InteractionResults :
         /\ trace' = Append(trace, Event("wait_boxes", res))
         /\ IF res = "ok"
            THEN /\ pc' = "getenv"
                 /\ UNCHANGED <<error, session, log>>
            ELSE Fail("wait_boxes", res)
    /\ UNCHANGED <<sheet, env, i, comunicaciones, view, saved>>

\* lines 37-40
GetCredentials ==
    /\ pc = "getenv"
    /\ IF CredentialsMissing(env)
       THEN /\ Raise("missing_credentials")
            /\ trace' = Append(trace, Event("getenv", "missing"))
       ELSE /\ pc' = "fill_user"
            /\ trace' = Append(trace, Event("getenv", "ok"))
            /\ UNCHANGED <<error, session>>
    /\ UNCHANGED <<sheet, env, i, comunicaciones, view, saved, log>>

\* line 42
FillUser ==
    /\ pc = "fill_user"
    /\ \E res \in InteractionResults :
         /\ trace' = Append(trace, Event("fill_user", res))
         /\ IF res = "ok"
            THEN /\ pc' = "fill_password"
                 /\ UNCHANGED <<error, session, log>>
            ELSE Fail("fill_user", res)
    /\ UNCHANGED <<sheet, env, i, comunicaciones, view, saved>>

\* line 43
FillPassword ==
    /\ pc = "fill_password"
    /\ \E res \in InteractionResults :
         /\ trace' = Append(trace, Event("fill_password", res))
         /\ IF res = "ok"
            THEN /\ pc' = "submit"
                 /\ UNCHANGED <<error, session, log>>
            ELSE Fail("fill_password", res)
    /\ UNCHANGED <<sheet, env, i, comunicaciones, view, saved>>

\* lines 44-46
Submit ==
    /\ pc = "submit"
    /\ \E res \in InteractionResults :
         /\ trace' = Append(trace, Event("submit", res))
         /\ IF res = "ok"
            THEN /\ view' = "list"
                 /\ pc' = "loop"
                 /\ UNCHANGED <<error, session, log>>
            ELSE /\ Fail("submit", res)
                 /\ UNCHANGED view
    /\ UNCHANGED <<sheet, env, i, comunicaciones, saved>>

NextIdentifierSkip ==
    /\ pc = "loop"
    /\ i < Len(comunicaciones)
    /\ i' = i + 2
    /\ pc' = "search"
    /\ UNCHANGED <<sheet, env, comunicaciones, view, session, trace, saved, log, error>>

\* line 48: the for loop takes the next identifier
NextIdentifier ==
    /\ pc = "loop"
    /\ i < Len(comunicaciones)
    /\ i' = i + 1
    /\ pc' = "search"
    /\ UNCHANGED <<sheet, env, comunicaciones, view, session, trace, saved, log, error>>

FinishOffByOne ==
    /\ pc = "loop"
    /\ i > Len(comunicaciones)
    /\ pc' = "done"
    /\ session' = "closed"
    /\ UNCHANGED <<sheet, env, i, comunicaciones, view, trace, saved, log, error>>

\* line 48 exhausted: the with block of line 22 ends and closes the browser
Finish ==
    /\ pc = "loop"
    /\ i >= Len(comunicaciones)
    /\ pc' = "done"
    /\ session' = "closed"
    /\ UNCHANGED <<sheet, env, i, comunicaciones, view, trace, saved, log, error>>

\* lines 49-52
Search ==
    /\ pc = "search"
    /\ \E res \in InteractionResults :
         /\ trace' = Append(trace, Event("search", res))
         /\ IF res = "ok"
            THEN /\ pc' = "open"
                 /\ UNCHANGED <<error, session, log>>
            ELSE Fail("search", res)
    /\ UNCHANGED <<sheet, env, i, comunicaciones, view, saved>>

\* lines 53-55
Open ==
    /\ pc = "open"
    /\ \E res \in InteractionResults :
         /\ trace' = Append(trace, Event("open", res))
         /\ IF res = "ok"
            THEN /\ view' = "detail"
                 /\ pc' = "download"
                 /\ UNCHANGED <<error, session, log>>
            ELSE /\ Fail("open", res)
                 /\ UNCHANGED view
    /\ UNCHANGED <<sheet, env, i, comunicaciones, saved>>

DownloadSaveAlways ==
    /\ pc = "download"
    /\ \E res \in DownloadResults :
         /\ trace' = Append(trace, Event("download", res))
         /\ saved' = Append(saved, i)
         /\ IF res = "ok"
            THEN /\ pc' = "return"
                 /\ UNCHANGED <<error, session, log>>
            ELSE Fail("download", res)
    /\ UNCHANGED <<sheet, env, i, comunicaciones, view>>

\* lines 56-70
Download ==
    /\ pc = "download"
    /\ \E res \in DownloadResults :
         /\ trace' = Append(trace, Event("download", res))
         /\ IF res = "ok"
            THEN /\ saved' = Append(saved, i)
                 /\ pc' = "return"
                 /\ UNCHANGED <<error, session, log>>
            ELSE /\ Fail("download", res)
                 /\ UNCHANGED saved
    /\ UNCHANGED <<sheet, env, i, comunicaciones, view>>

\* lines 72-74
ReturnToList ==
    /\ pc = "return"
    /\ \E res \in InteractionResults :
         /\ trace' = Append(trace, Event("return", res))
         /\ IF res = "ok"
            THEN /\ view' = "list"
                 /\ pc' = "loop"
                 /\ UNCHANGED <<error, session, log>>
            ELSE /\ Fail("return", res)
                 /\ UNCHANGED view
    /\ UNCHANGED <<sheet, env, i, comunicaciones, saved>>

Next ==
    \/ ObtenerComunicaciones
    \/ Launch
    \/ Goto
    \/ WaitBoxes
    \/ GetCredentials
    \/ FillUser
    \/ FillPassword
    \/ Submit
    \/ NextIdentifier
    \/ Finish
    \/ Search
    \/ Open
    \/ Download
    \/ ReturnToList

Spec == Init /\ [][Next]_vars

\* every wait of the code is blocking and bounded by a timeout (line 28,
\* line 58), so a step that is possible is eventually taken
FairSpec == Spec /\ WF_vars(Next)

----------------------------------------------------------------------------
(* Reading the trace *)

N == Len(comunicaciones)

LoginOps == {"fill_user", "fill_password", "submit"}
LoopOps == {"search", "open", "download", "return"}
PortalOps == {"goto", "wait_boxes"} \cup LoginOps \cup LoopOps

Events(ops) == {k \in DOMAIN trace : trace[k].op \in ops}

Count(op, j) == Cardinality({k \in DOMAIN trace : trace[k].op = op /\ trace[k].i = j})

Failures(ops) == {k \in Events(ops) : trace[k].res # "ok"}

Last == trace[Len(trace)]

DownloadOk(j) == \E k \in DOMAIN trace :
    trace[k].op = "download" /\ trace[k].i = j /\ trace[k].res = "ok"

DownloadFailed(j) == \E k \in DOMAIN trace :
    trace[k].op = "download" /\ trace[k].i = j /\ trace[k].res # "ok"

Mentions(entry, x) == \E k \in DOMAIN entry : entry[k] = x

SheetBad == ~sheet.chosen \/ ~sheet.hasId \/ ~sheet.hasOrg

CredBad == env.user = Null \/ env.password = Null

----------------------------------------------------------------------------
(* Claims *)

\* C1: when nothing but download steps fails, the run is never aborted, and
\* when it is done every position of the list had its search, open and
\* download attempted and the files saved are exactly those of the positions
\* whose download did not fail, in list order.
C1_FailureIsolation ==
    /\ (Failures({"obtener", "launch", "getenv"} \cup (PortalOps \ {"download"})) = {})
          => pc # "aborted"
    /\ pc = "done" =>
          /\ \A j \in 1..N : Count("search", j) >= 1 /\ Count("open", j) >= 1
                               /\ Count("download", j) >= 1
          /\ {saved[k] : k \in DOMAIN saved} = {j \in 1..N : ~DownloadFailed(j)}
          /\ \A k \in 1..(Len(saved) - 1) : saved[k] < saved[k + 1]

C1_Witness ==
    /\ pc = "done"
    /\ comunicaciones = <<"100", "200", "300">>
    /\ DownloadFailed(2)
    /\ saved = <<1, 3>>

\* C2: every search is issued from the list view, and the search of a
\* position after the first is preceded by the return-to-list of the
\* position before it.
C2_ListViewBeforeSearch ==
    /\ \A k \in Events({"search"}) : trace[k].view = "list"
    /\ \A k \in Events({"search"}) : trace[k].i > 1 => Count("return", trace[k].i - 1) = 1

\* C3: the list returned by obtener_comunicaciones is the identifier column
\* of the rows with an empty organism, in row order, duplicates and blank
\* identifiers kept.
C3_SelectorResult ==
    (pc # "main" /\ ~SheetBad) =>
        LET idx == {k \in DOMAIN sheet.rows : sheet.rows[k].org = Null} IN
        /\ Len(comunicaciones) = Cardinality(idx)
        /\ \A k \in idx :
             comunicaciones[Cardinality({m \in idx : m <= k})] = sheet.rows[k].id

C3_Witness ==
    /\ pc = "launch"
    /\ sheet.rows = <<[id |-> "100", org |-> Null], [id |-> "200", org |-> "X"],
                      [id |-> "300", org |-> Null]>>
    /\ comunicaciones = <<"100", "300">>

\* C4 as stated: with any configuration error (credential unset, no file,
\* missing column) no portal interaction of any kind takes place.
C4_NoPortalInteraction ==
    (SheetBad \/ CredBad) => Events(PortalOps) = {}

\* C4 amended: a selector configuration error aborts before the browser is
\* launched; an unset credential aborts after at most the navigation to the
\* base page and the wait for the login fields, before any field is filled,
\* the form submitted or an identifier processed.
C4_ConfigErrorFatal ==
    /\ SheetBad => /\ pc \in {"main", "aborted"}
                   /\ session = "none"
                   /\ Events({"launch"} \cup PortalOps) = {}
    /\ CredBad => /\ pc \in {"main", "launch", "goto", "wait_boxes", "getenv", "aborted"}
                  /\ Events(LoginOps \cup LoopOps) = {}
                  /\ saved = <<>>

C4_Witness ==
    /\ ~SheetBad
    /\ env.user = "u" /\ env.password = Null
    /\ error = "missing_credentials"
    /\ pc = "aborted"
    /\ Events({"goto", "wait_boxes"}) # {}

\* C5: with the username or the password unset, the credential check raises
\* as soon as it is reached; the portal has then seen the navigation to the
\* base page and the wait for the login fields and nothing else.
C5_MissingCredentials ==
    CredBad =>
        /\ Events(PortalOps) \subseteq Events({"goto", "wait_boxes"})
        /\ Count("goto", 0) <= 1
        /\ Events({"getenv"}) # {} =>
              /\ pc = "aborted"
              /\ error = "missing_credentials"
              /\ Last.op = "getenv"

C5_Witness ==
    /\ env.user = Null /\ env.password = "p"
    /\ comunicaciones = <<>>
    /\ ~SheetBad
    /\ error = "missing_credentials"
    /\ Last.op = "getenv"

\* C6: without the organism column the selector raises and the browser is
\* never launched.
C6_MissingOrganismColumn ==
    ~sheet.hasOrg =>
        /\ session = "none"
        /\ Events({"launch"}) = {}
        /\ pc \in {"main", "aborted"}
        /\ pc = "aborted" => error \in {"no_file", "missing_column"}

C6_Witness ==
    /\ sheet.chosen /\ sheet.hasId /\ ~sheet.hasOrg
    /\ pc = "aborted"
    /\ error = "missing_column"
    /\ Len(sheet.rows) > 0

\* C7: the log entry written for a failed download mentions the identifier
\* whose download failed.
C7_LogMentionsIdentifier ==
    (trace # <<>> /\ log # <<>> /\ Last.op = "download" /\ Last.res # "ok")
        => Mentions(log[Len(log)], comunicaciones[Last.i])

\* C8 as stated: a timeout in any interaction of an identifier's processing
\* never terminates the run.
C8_TimeoutNeverFatal ==
    (trace # <<>> /\ Last.op \in LoopOps /\ Last.res = "timeout") => pc # "aborted"

\* C8 amended: a timeout of the download step abandons the current
\* identifier only (the loop goes on, nothing is saved for it, one log entry
\* is written); a timeout in search, open or return-to-list aborts the run.
C8_TimeoutScope ==
    (trace # <<>> /\ Last.res = "timeout") =>
        /\ Last.op = "download" =>
              /\ pc \in {"loop", "search", "done"}
              /\ error = "none"
              /\ pc = "search" => i = Last.i + 1
              /\ \A k \in DOMAIN saved : saved[k] # Last.i
        /\ Last.op \in LoopOps \ {"download"} =>
              /\ pc = "aborted"
              /\ error = "interaction"

C8_Witness ==
    /\ trace # <<>>
    /\ Last.op = "download" /\ Last.res = "timeout" /\ Last.i = 1
    /\ pc = "search"
    /\ i = 2

\* C9: a failure of any step other than the download is the last thing the
\* run does: the run is aborted, and no search, open, download, return or
\* save follows it.
C9_OtherFailuresFatal ==
    /\ \A k \in Failures({"launch"} \cup (PortalOps \ {"download"})) :
          /\ k = Len(trace)
          /\ pc = "aborted"
          /\ error = "interaction"
    /\ Len(saved) = Cardinality({k \in Events({"download"}) : trace[k].res = "ok"})

C9_Witness ==
    /\ pc = "aborted"
    /\ N = 3
    /\ Last.op = "return" /\ Last.res = "timeout" /\ Last.i = 1
    /\ saved = <<1>>

\* C10: nothing is retried: each login step happens at most once, and for
\* each position of the list the search, open, download and return-to-list
\* happen at most once each.
C10_NoRetry ==
    /\ \A op \in {"launch", "goto", "wait_boxes", "getenv"} \cup LoginOps : Count(op, 0) <= 1
    /\ \A op \in LoopOps : \A j \in 1..N : Count(op, j) <= 1
    /\ \A k \in Events(LoopOps) : trace[k].i \in 1..N
    /\ \A k \in DOMAIN trace : \A m \in DOMAIN trace : k < m => trace[k].i <= trace[m].i

C10_Witness ==
    /\ pc = "done"
    /\ comunicaciones = <<"100", "100">>
    /\ DownloadFailed(1)
    /\ Count("search", 1) = 1 /\ Count("search", 2) = 1

\* position of each step in the straight-line code before the loop, and of
\* each step inside one iteration
Rank(op) ==
    CASE op = "obtener" -> 1
      [] op = "launch" -> 2
      [] op = "goto" -> 3
      [] op = "wait_boxes" -> 4
      [] op = "getenv" -> 5
      [] op = "fill_user" -> 6
      [] op = "fill_password" -> 7
      [] op = "submit" -> 8
      [] op = "search" -> 9
      [] op = "open" -> 10
      [] op = "download" -> 11
      [] op = "return" -> 12

OkBefore(op, j, k) == \E m \in 1..(k - 1) :
    trace[m].op = op /\ trace[m].i = j /\ trace[m].res = "ok"

\* C11: the selector comes first and the browser is launched only after it
\* succeeded; the login steps follow in code order on the login view; the
\* first search comes after the submitted login, from the list view; the
\* searches visit the positions 1, 2, 3, ... of the list in order, and within
\* one position the search precedes the open, which precedes the download
\* (made on the detail view), which precedes the return; done is reached
\* only after the last position.
C11_RunOrder ==
    /\ \A k \in DOMAIN trace : \A m \in DOMAIN trace :
          k < m => /\ trace[k].i <= trace[m].i
                   /\ trace[k].i = trace[m].i => Rank(trace[k].op) < Rank(trace[m].op)
    /\ \A k \in DOMAIN trace :
          /\ trace[k].op = "obtener" <=> k = 1
          /\ trace[k].op = "launch" => OkBefore("obtener", 0, k)
          /\ trace[k].op \in LoginOps => trace[k].view = "login"
          /\ trace[k].op \in LoopOps <=> trace[k].i > 0
          /\ trace[k].op = "search" =>
                /\ OkBefore("submit", 0, k)
                /\ trace[k].i = Cardinality({m \in Events({"search"}) : m <= k})
                /\ trace[k].i = 1 => trace[k].view = "list"
          /\ trace[k].op = "open" => OkBefore("search", trace[k].i, k)
          /\ trace[k].op = "download" =>
                /\ OkBefore("open", trace[k].i, k)
                /\ trace[k].view = "detail"
          /\ trace[k].op = "return" => OkBefore("download", trace[k].i, k)
    /\ session # "none" => pc # "main"
    /\ pc = "done" => i = N /\ Count("search", N) = (IF N = 0 THEN 0 ELSE 1)

C11_Witness ==
    /\ pc = "done"
    /\ comunicaciones = <<"300", "100", "200">>
    /\ DownloadFailed(1)
    /\ DownloadOk(2)
    /\ Count("search", 3) = 1

\* C12: at most one browser session is created in a run; every portal
\* interaction is made while it is open; it is closed when the run is done
\* and when the run is aborted after the launch, whether during the login or
\* during an identifier's processing.
C12_SingleSession ==
    /\ Count("launch", 0) <= 1
    /\ session \in {"none", "open", "closed"}
    /\ session = "none" <=> ~OkBefore("launch", 0, Len(trace) + 1)
    /\ session = "open" <=> pc \notin {"main", "launch", "done", "aborted"}
    /\ (pc \in {"done", "aborted"} /\ OkBefore("launch", 0, Len(trace) + 1))
          => session = "closed"
    /\ Events(PortalOps) # {} => OkBefore("launch", 0, Len(trace) + 1)

C12_Witness ==
    /\ pc = "aborted"
    /\ session = "closed"
    /\ error = "interaction"
    /\ Last.op = "open" /\ Last.i = 2
    /\ saved = <<1>>

\* C13: every saved file belongs to a position whose download step completed
\* (event arrived and save succeeded); no position has two files; a position
\* whose download step failed has none; the number of saved files never
\* exceeds the number of positions taken from the list so far.
C13_SavedFiles ==
    /\ \A k \in DOMAIN saved : DownloadOk(saved[k]) /\ ~DownloadFailed(saved[k])
    /\ \A k \in DOMAIN saved : \A m \in DOMAIN saved : saved[k] = saved[m] => k = m
    /\ \A j \in 1..N : DownloadFailed(j) => \A k \in DOMAIN saved : saved[k] # j
    /\ Len(saved) <= i
    /\ i <= N

C13_Witness ==
    /\ N = 3
    /\ i = 3
    /\ DownloadOk(1) /\ DownloadFailed(2) /\ DownloadFailed(3)
    /\ saved = <<1>>

\* C14: every run eventually ends, done or aborted; a run with an empty list
\* that has logged in goes to done, and it has then submitted the login and
\* made no search and no download.
C14_Terminates ==
    /\ <>(pc \in {"done", "aborted"})
    /\ (pc = "loop" /\ N = 0) ~> (pc = "done")
    /\ []((pc = "done" /\ N = 0) =>
            /\ OkBefore("submit", 0, Len(trace) + 1)
            /\ Events(LoopOps) = {}
            /\ saved = <<>>)

C14_Witness ==
    /\ pc = "done"
    /\ comunicaciones = <<>>
    /\ Len(sheet.rows) = 2
    /\ OkBefore("submit", 0, Len(trace) + 1)
    /\ Events(LoopOps) = {}

====
